---- MODULE Spec2Model ----
(***************************************************************************)
(* A model of the weekend ray tracer (src/main.cpp): the scene query       *)
(* World::hit / Sphere::hit, the PPM writer writeImage, and the row-        *)
(* parallel renderer render() with its worker threads and the process-wide  *)
(* random generator of randomFloat().                                       *)
(*                                                                         *)
(* Numbers.  A C++ float is modelled as a fixed-point number with Q steps   *)
(* per unit (a finite value carries the integer v, meaning v/Q), or one of  *)
(* the IEEE special values NaN, +Inf, -Inf.  Arithmetic rounds toward zero. *)
(* The special values are kept because the code's comparisons treat them    *)
(* specially (every ordered comparison with NaN is false).  Signed zeros    *)
(* and overflow to infinity are not modelled.                               *)
(***************************************************************************)
EXTENDS Integers, Sequences, FiniteSets, TLC

VARIABLES
  \* the scene
  objects,      \* World::objects, in insertion order
  camera,       \* the Camera's fields
  \* render() and its worker threads
  samplesPerPixel, maxDepth, numThreads,   \* render's parameters
  rowsPerThread,
  i,               \* the spawn loop's index
  workerThreads,   \* thread n -> the position and locals of its work(...) call
  joined,          \* threads joined so far by the for_each
  renderPc,        \* "idle" | "start" | "spawn" | "join" | "done"
  generator,       \* randomFloat's static std::mt19937, as its place in its stream
  argsLeftToRight, \* the build evaluates a call's arguments left to right
  generatorUsers,  \* the worker threads that have used the generator
  written,         \* cell -> the workers that stored to it, in order
  \* World::hit and its caller
  ray,          \* the ray of the query
  t_min, t_max, \* the window of the query
  callerRecord, \* the caller's HitRecord as it was when World::hit was called
  hitRecord,    \* the caller's HitRecord (World::hit's reference parameter)
  hitAnything, closestHit,
  tempHit,      \* what the latest object->hit returned
  tempRecord,   \* the loop body's tempRecord
  idx,          \* objects scanned so far by the range-for
  hitPc,        \* "idle" | "scan" | "returned"
  \* the Image and writeImage
  image,        \* [width, height, pixels]: pixels is the row-major buffer
  out,          \* the lines written to the file so far, each a list of tokens
  line,         \* the tokens written since the last std::endl
  wy, wx,       \* writeImage's loop variables y (int32_t) and x
  writePc,      \* "idle" | "header" | "rows" | "closed"
  \* rayColor
  callStack,    \* the activations of rayColor, the outermost first
  returned      \* the activation that returned last, as it was at its return

fileVars == <<out, line, wy, wx, writePc>>
writeVars == <<image, fileVars>>
sceneVars == <<objects, camera>>
paramVars == <<samplesPerPixel, maxDepth, numThreads>>
renderVars == <<paramVars, argsLeftToRight, rowsPerThread, i, workerThreads,
                joined, renderPc, generator, generatorUsers, written>>
hitVars == <<ray, t_min, t_max, callerRecord, hitRecord, hitAnything,
             closestHit, tempHit, tempRecord, idx, hitPc>>
colorVars == <<callStack, returned>>
vars == <<sceneVars, renderVars, hitVars, writeVars, colorVars>>

\* ------------------------------------------------------------------ bounds
\* Fixed-point steps per unit of a modelled float.
Q == 4
\* Longest object list of a World in the scene-query specification.
MaxObjects == 3
\* Largest image handed to writeImage in the writer specification.
WriteMaxWidth == 2
WriteMaxHeight == 2
\* Largest image, most threads, samples per pixel and bounces of a render.
MaxWidth == 2
MaxHeight == 2
MaxThreads == 2
MaxSamples == 1
MaxDepth == 2
\* Deepest recursion budget handed to rayColor in its own specification.
TraceMaxDepth == 2
\* Length of the generator's stream before it repeats.
GenPeriod == 4
\* Tallest image and most threads of the spawn loop's specification.
SpawnMaxHeight == 6
SpawnMaxThreads == 4

\* -------------------------------------------------------- machine integers
\* int32_t y = <uint32_t expression>: the expression wraps modulo 2^32 and the
\* conversion brings every value from 2^31 up back below zero, so an
\* expression whose mathematical value n lies in -2^31 .. 2^31 - 1 yields n
\* (image.height - 1 is -1 for an image of height 0).  Every integer of the
\* model lies in that range.
ToInt32(n) == n

\* ------------------------------------------------------------ float model
Fin(n) == [k |-> "fin", v |-> n]
NaN == [k |-> "nan", v |-> 0]
Inf(s) == [k |-> "inf", v |-> s]
\* A float literal with an integer value.
Lit(n) == Fin(n * Q)
IsFin(x) == x.k = "fin"
IsNaN(x) == x.k = "nan"
IsInf(x) == x.k = "inf"
Sgn(n) == IF n > 0 THEN 1 ELSE IF n < 0 THEN -1 ELSE 0
Abs(n) == IF n < 0 THEN -n ELSE n
\* C division of integers: the quotient rounds toward zero.
TruncDiv(a, b) == Sgn(a) * Sgn(b) * (Abs(a) \div Abs(b))
\* A float literal n/d (d > 0): the nearest step toward zero, and never zero
\* for a literal that is not zero (0.001f and FLT_EPSILON stay positive).
FLit(n, d) ==
  IF TruncDiv(n * Q, d) = 0 THEN Fin(Sgn(n)) ELSE Fin(TruncDiv(n * Q, d))

RECURSIVE ISqrtIter(_, _, _)
\* The largest r in lo..hi with r*r <= n (lo*lo <= n < (hi+1)*(hi+1)).
ISqrtIter(n, lo, hi) ==
  IF lo >= hi THEN lo
  ELSE LET mid == (lo + hi + 1) \div 2
       IN IF mid * mid <= n THEN ISqrtIter(n, mid, hi)
          ELSE ISqrtIter(n, lo, mid - 1)
ISqrt(n) == ISqrtIter(n, 0, n)

FNeg(x) ==
  CASE IsNaN(x) -> NaN
    [] IsInf(x) -> Inf(-x.v)
    [] OTHER -> Fin(-x.v)

FAdd(x, y) ==
  CASE IsNaN(x) \/ IsNaN(y) -> NaN
    [] IsInf(x) /\ IsInf(y) -> IF x.v = y.v THEN x ELSE NaN
    [] IsInf(x) -> x
    [] IsInf(y) -> y
    [] OTHER -> Fin(x.v + y.v)

FSub(x, y) == FAdd(x, FNeg(y))

FMul(x, y) ==
  CASE IsNaN(x) \/ IsNaN(y) -> NaN
    [] IsInf(x) \/ IsInf(y) ->
         IF Sgn(x.v) * Sgn(y.v) = 0 THEN NaN ELSE Inf(Sgn(x.v) * Sgn(y.v))
    [] OTHER -> Fin(TruncDiv(x.v * y.v, Q))

\* IEEE division: 0/0 is NaN, x/0 is an infinity, nothing traps.
FDiv(x, y) ==
  CASE IsNaN(x) \/ IsNaN(y) -> NaN
    [] IsInf(x) /\ IsInf(y) -> NaN
    [] IsInf(x) -> Inf(IF y.v < 0 THEN -x.v ELSE x.v)
    [] IsInf(y) -> Fin(0)
    [] y.v = 0 -> IF x.v = 0 THEN NaN ELSE Inf(Sgn(x.v))
    [] OTHER -> Fin(TruncDiv(x.v * Q, y.v))

FSqrt(x) ==
  CASE IsNaN(x) -> NaN
    [] IsInf(x) -> IF x.v > 0 THEN x ELSE NaN
    [] x.v < 0 -> NaN
    [] OTHER -> Fin(ISqrt(x.v * Q))

\* x < y on floats: false whenever an operand is NaN.
FLt(x, y) ==
  CASE IsNaN(x) \/ IsNaN(y) -> FALSE
    [] IsInf(x) -> x.v < 0 /\ ~(IsInf(y) /\ y.v < 0)
    [] IsInf(y) -> y.v > 0
    [] OTHER -> x.v < y.v

FGt(x, y) == FLt(y, x)
\* x >= y on floats.
FGe(x, y) == ~IsNaN(x) /\ ~IsNaN(y) /\ ~FLt(x, y)

\* ---------------------------------------------------------------- vectors
Vec(x, y, z) == <<Lit(x), Lit(y), Lit(z)>>
VAdd(a, b) == <<FAdd(a[1], b[1]), FAdd(a[2], b[2]), FAdd(a[3], b[3])>>
VSub(a, b) == <<FSub(a[1], b[1]), FSub(a[2], b[2]), FSub(a[3], b[3])>>
VNeg(a) == <<FNeg(a[1]), FNeg(a[2]), FNeg(a[3])>>
VScale(s, a) == <<FMul(s, a[1]), FMul(s, a[2]), FMul(s, a[3])>>
VDivF(a, s) == <<FDiv(a[1], s), FDiv(a[2], s), FDiv(a[3], s)>>
VDot(a, b) == FAdd(FAdd(FMul(a[1], b[1]), FMul(a[2], b[2])), FMul(a[3], b[3]))
VLength2(a) == VDot(a, a)

VMul(a, b) == <<FMul(a[1], b[1]), FMul(a[2], b[2]), FMul(a[3], b[3])>>
VCross(a, b) ==
  <<FSub(FMul(a[2], b[3]), FMul(b[2], a[3])),
    FSub(FMul(a[3], b[1]), FMul(b[3], a[1])),
    FSub(FMul(a[1], b[2]), FMul(b[1], a[2]))>>
VLength(a) == FSqrt(VLength2(a))
\* glm::normalize: the vector over its length (NaN for the zero vector).
VNormalize(a) == VDivF(a, VLength(a))
\* glm::min(x, y) is (y < x) ? y : x and glm::max(x, y) is (x < y) ? y : x.
FMin(x, y) == IF FLt(y, x) THEN y ELSE x
FMax(x, y) == IF FLt(x, y) THEN y ELSE x
FAbs(x) == IF IsFin(x) THEN Fin(Abs(x.v)) ELSE IF IsInf(x) THEN Inf(1) ELSE NaN
\* glm::reflect(I, N) = I - N * dot(N, I) * 2
Reflect(incident, n) ==
  VSub(incident, VScale(FMul(VDot(n, incident), Lit(2)), n))

\* ---------------------------------------------------------------- materials
\* A material, as the object a shared_ptr<Material> points to.
Lambertian(color) ==
  [kind |-> "Lambertian", albedo |-> color, fuzz |-> Fin(0), ir |-> Fin(0)]
Metal(color, f) ==
  [kind |-> "Metal", albedo |-> color, fuzz |-> f, ir |-> Fin(0)]
Dielectric(indexOfRefraction) ==
  [kind |-> "Dielectric", albedo |-> Vec(0, 0, 0), fuzz |-> Fin(0),
   ir |-> indexOfRefraction]
\* A shared_ptr<Material> that was never set.
NoMaterial == [kind |-> "none", albedo |-> Vec(0, 0, 0), fuzz |-> Fin(0), ir |-> Fin(0)]

\* Ray::at
RayAt(r, t) == VAdd(r.origin, VScale(t, r.dir))

\* ------------------------------------------------------------ Sphere::hit
\* HitRecord::setFaceNormal, as the pair of fields it assigns.
SetFaceNormal(r, outwardNormal) ==
  LET frontFace == FLt(VDot(r.dir, outwardNormal), Fin(0))
  IN [frontFace |-> frontFace,
      normal |-> IF frontFace THEN outwardNormal ELSE VNeg(outwardNormal)]

\* The test that sends Sphere::hit past a root: root < t_min || root > t_max.
RootRejectedStrictUpper(root, tmin, tmax) ==
  FLt(root, tmin) \/ FGe(root, tmax)
RootRejectedOpenLower(root, tmin, tmax) ==
  FGe(tmin, root) \/ FGt(root, tmax)
RootRejected(root, tmin, tmax) == FLt(root, tmin) \/ FGt(root, tmax)

\* What Sphere::hit leaves in the record it is handed once a root is accepted.
SphereRecord(sphere, r, root) ==
  LET pos == RayAt(r, root)
      outwardNormal == VDivF(VSub(pos, sphere.center), sphere.radius)
      face == SetFaceNormal(r, outwardNormal)
  IN [t |-> root, pos |-> pos, normal |-> face.normal,
      frontFace |-> face.frontFace, material |-> sphere.material]

\* A record Sphere::hit did not write (it returned false).
NoRecord == [t |-> NaN, pos |-> <<NaN, NaN, NaN>>, normal |-> <<NaN, NaN, NaN>>,
             frontFace |-> FALSE, material |-> NoMaterial]

\* Sphere::hit: [hit |-> the value returned, rec |-> the record written].
SphereHit(sphere, r, tmin, tmax) ==
  LET originToCenter == VSub(r.origin, sphere.center)
      a == VLength2(r.dir)
      half_b == VDot(originToCenter, r.dir)
      c == FSub(VLength2(originToCenter), FMul(sphere.radius, sphere.radius))
      discriminant == FSub(FMul(half_b, half_b), FMul(a, c))
      sqrtd == FSqrt(discriminant)
      root1 == FDiv(FSub(FNeg(half_b), sqrtd), a)
      root2 == FDiv(FAdd(FNeg(half_b), sqrtd), a)
  IN IF FLt(discriminant, Fin(0)) THEN [hit |-> FALSE, rec |-> NoRecord]
     ELSE IF ~RootRejected(root1, tmin, tmax)
          THEN [hit |-> TRUE, rec |-> SphereRecord(sphere, r, root1)]
     ELSE IF ~RootRejected(root2, tmin, tmax)
          THEN [hit |-> TRUE, rec |-> SphereRecord(sphere, r, root2)]
     ELSE [hit |-> FALSE, rec |-> NoRecord]

\* ------------------------------------------------------------- World::hit
\* One pass of World::hit's loop body over `object`, on the loop's state.
WorldHitIterNoShrink(st, object, r, tmin, tmax) ==
  LET res == SphereHit(object, r, tmin, tmax)
  IN IF res.hit
     THEN [hitAnything |-> TRUE, hitRecord |-> res.rec, closestHit |-> res.rec.t,
           tempHit |-> TRUE, tempRecord |-> res.rec]
     ELSE [st EXCEPT !.tempHit = FALSE, !.tempRecord = NoRecord]
WorldHitIter(st, object, r, tmin, tmax) ==
  LET res == SphereHit(object, r, tmin, st.closestHit)
  IN IF res.hit
     THEN [hitAnything |-> TRUE, hitRecord |-> res.rec, closestHit |-> res.rec.t,
           tempHit |-> TRUE, tempRecord |-> res.rec]
     ELSE [st EXCEPT !.tempHit = FALSE, !.tempRecord = NoRecord]

\* Inputs of the scene-query specification.
SeqsUpTo(S, n) == UNION {[1..m -> S] : m \in 0..n}
HitSpheres ==
  { [center |-> Vec(0, 0, -3), radius |-> Lit(1), material |-> Lambertian(Vec(1, 0, 0))],
    [center |-> Vec(0, 0, -3), radius |-> Lit(1), material |-> Metal(Vec(0, 1, 0), Fin(0))],
    [center |-> Vec(0, 0, -3), radius |-> Lit(-1), material |-> Dielectric(FLit(3, 2))],
    [center |-> Vec(0, 0, -5), radius |-> Lit(1), material |-> Lambertian(Vec(0, 0, 1))] }
HitRays ==
  { [origin |-> o, dir |-> d] :
      o \in {Vec(0, 0, 0)},
      d \in {Vec(0, 0, -1), Vec(0, 0, -2), Vec(0, 0, 0), Vec(0, 1, 0)} }
HitTMins == {Lit(0), Lit(2), Lit(3)}
HitTMaxs == {Lit(4), Lit(100)}
\* A record the caller may hold when it calls World::hit.
StaleRecord == [t |-> Lit(7), pos |-> Vec(7, 7, 7), normal |-> Vec(0, 1, 0),
                frontFace |-> TRUE, material |-> Metal(Vec(1, 1, 1), Fin(0))]

\* World::hit is not running.
HitIdle ==
  /\ ray = [origin |-> Vec(0, 0, 0), dir |-> Vec(0, 0, 0)]
  /\ t_min = Fin(0)
  /\ t_max = Fin(0)
  /\ callerRecord = NoRecord
  /\ hitRecord = NoRecord
  /\ hitAnything = FALSE
  /\ closestHit = Fin(0)
  /\ tempHit = FALSE
  /\ tempRecord = NoRecord
  /\ idx = 0
  /\ hitPc = "idle"

HitInit ==
  /\ objects \in SeqsUpTo(HitSpheres, MaxObjects)
  /\ ray \in HitRays
  /\ t_min \in HitTMins
  /\ t_max \in HitTMaxs
  /\ callerRecord = StaleRecord
  /\ hitRecord = callerRecord
  /\ hitAnything = FALSE
  /\ closestHit = t_max
  /\ tempHit = FALSE
  /\ tempRecord = NoRecord
  /\ idx = 0
  /\ hitPc = "scan"

\* World::hit, one iteration of the loop over objects.
HitScan ==
  /\ hitPc = "scan"
  /\ idx < Len(objects)
  /\ LET st == WorldHitIter([hitAnything |-> hitAnything, hitRecord |-> hitRecord,
                              closestHit |-> closestHit, tempHit |-> tempHit,
                              tempRecord |-> tempRecord],
                             objects[idx + 1], ray, t_min, t_max)
     IN /\ hitAnything' = st.hitAnything
        /\ hitRecord' = st.hitRecord
        /\ closestHit' = st.closestHit
        /\ tempHit' = st.tempHit
        /\ tempRecord' = st.tempRecord
  /\ idx' = idx + 1
  /\ UNCHANGED <<ray, t_min, t_max, callerRecord, hitPc>>
  /\ UNCHANGED <<sceneVars, renderVars, writeVars, colorVars>>

\* World::hit, the loop is over: return hitAnything.
HitReturn ==
  /\ hitPc = "scan"
  /\ idx = Len(objects)
  /\ hitPc' = "returned"
  /\ UNCHANGED <<ray, t_min, t_max, callerRecord, hitRecord,
                 hitAnything, closestHit, tempHit, tempRecord, idx>>
  /\ UNCHANGED <<sceneVars, renderVars, writeVars, colorVars>>

HitNext == HitScan \/ HitReturn

\* World::hit run to its end on an object list: the loop's final state.
RECURSIVE WorldHitFrom(_, _, _, _, _, _)
WorldHitFrom(st, objs, k, r, tmin, tmax) ==
  IF k > Len(objs) THEN st
  ELSE WorldHitFrom(WorldHitIter(st, objs[k], r, tmin, tmax), objs, k + 1, r, tmin, tmax)
WorldHit(objs, r, tmin, tmax, rec) ==
  WorldHitFrom([hitAnything |-> FALSE, hitRecord |-> rec, closestHit |-> tmax,
                tempHit |-> FALSE, tempRecord |-> NoRecord], objs, 1, r, tmin, tmax)

\* ------------------------------------------------------------------ Camera
\* Camera::Camera, given h = tan(theta / 2) in place of the field of view.
Camera(lookFrom, lookAt, h, aspectRatio, aperture, focusDist) ==
  LET viewportHeight == FMul(Lit(2), h)
      viewportWidth == FMul(viewportHeight, aspectRatio)
      up == Vec(0, 1, 0)
      w == VNormalize(VSub(lookFrom, lookAt))
      u == VNormalize(VCross(up, w))
      v == VCross(w, u)
      horizontal == VScale(viewportWidth, VScale(focusDist, u))
      vertical == VScale(viewportHeight, VScale(focusDist, v))
  IN [origin |-> lookFrom, horizontal |-> horizontal, vertical |-> vertical,
      lowerLeftCorner |->
        VSub(VSub(VSub(lookFrom, VDivF(horizontal, Lit(2))),
                  VDivF(vertical, Lit(2))),
             VScale(focusDist, w)),
      u |-> u, v |-> v, w |-> w, lensRadius |-> FDiv(aperture, Lit(2))]

\* Camera::getRay, given the point randomPointInUnitDisc returned.
GetRay(cam, s, t, point) ==
  LET rd == VScale(cam.lensRadius, point)
      offset == VAdd(VScale(rd[1], cam.u), VScale(rd[2], cam.v))
  IN [origin |-> VAdd(cam.origin, offset),
      dir |-> VSub(VSub(VAdd(VAdd(cam.lowerLeftCorner, VScale(s, cam.horizontal)),
                             VScale(t, cam.vertical)),
                        cam.origin),
                   offset)]

\* ----------------------------------------------------------------- scatter
\* randomFloat(min, max), r being what its call of randomFloat() returned.
RandomRange(min, max, r) == FAdd(min, FMul(FSub(max, min), r))
FltEpsilon == FLit(1, 8388608)

\* Material::scatter's answer: [ok |-> the value returned, attenuation, ray].
\* Lambertian::scatter, given the point randomPointInUnitSphere returned.
LambertianScatter(mat, inputRay, rec, point) ==
  LET scatterDirection == VAdd(rec.normal, point)
  IN [ok |-> TRUE, attenuation |-> mat.albedo,
      ray |-> [origin |-> rec.pos,
               dir |-> IF FLt(VLength(scatterDirection), FltEpsilon)
                       THEN rec.normal ELSE scatterDirection]]

\* Metal::scatter, given the point randomPointInUnitSphere returned.
MetalScatter(mat, inputRay, rec, point) ==
  LET reflected == Reflect(VNormalize(inputRay.dir), rec.normal)
      dir == VAdd(reflected, VScale(mat.fuzz, point))
  IN [ok |-> FGt(VDot(dir, rec.normal), Fin(0)), attenuation |-> mat.albedo,
      ray |-> [origin |-> rec.pos, dir |-> dir]]

\* refract
Refract(uv, n, etaiOverEtat) ==
  LET cosTheta == FMin(VDot(VNeg(uv), n), Lit(1))
      rOutPerp == VScale(etaiOverEtat, VAdd(uv, VScale(cosTheta, n)))
      rOutParallel ==
        VScale(FNeg(FSqrt(FAbs(FSub(Lit(1), VLength2(rOutPerp))))), n)
  IN VAdd(rOutPerp, rOutParallel)

\* Dielectric::calcReflectance (Schlick's approximation)
CalcReflectance(cosine, refIdx) ==
  LET r0 == FDiv(FSub(Lit(1), refIdx), FAdd(Lit(1), refIdx))
      r0sq == FMul(r0, r0)
      x == FSub(Lit(1), cosine)
      pow5 == FMul(FMul(FMul(FMul(x, x), x), x), x)
  IN FAdd(r0sq, FMul(FSub(Lit(1), r0sq), pow5))

\* Dielectric::scatter up to its decision: what it computes before it may
\* call randomFloat().
DielectricSetupRatioSwapped(mat, inputRay, rec) ==
  LET refractionRatio == IF rec.frontFace THEN mat.ir ELSE FDiv(Lit(1), mat.ir)
      normalizedDirection == VNormalize(inputRay.dir)
      cosTheta == FMin(VDot(VNeg(normalizedDirection), rec.normal), Lit(1))
      sinTheta == FSqrt(FSub(Lit(1), FMul(cosTheta, cosTheta)))
  IN [refractionRatio |-> refractionRatio,
      normalizedDirection |-> normalizedDirection,
      cosTheta |-> cosTheta,
      cannotRefract |-> FGt(FMul(refractionRatio, sinTheta), Lit(1))]
DielectricSetup(mat, inputRay, rec) ==
  LET refractionRatio == IF rec.frontFace THEN FDiv(Lit(1), mat.ir) ELSE mat.ir
      normalizedDirection == VNormalize(inputRay.dir)
      cosTheta == FMin(VDot(VNeg(normalizedDirection), rec.normal), Lit(1))
      sinTheta == FSqrt(FSub(Lit(1), FMul(cosTheta, cosTheta)))
  IN [refractionRatio |-> refractionRatio,
      normalizedDirection |-> normalizedDirection,
      cosTheta |-> cosTheta,
      cannotRefract |-> FGt(FMul(refractionRatio, sinTheta), Lit(1))]

\* Dielectric::scatter, reflecting: cannotRefract, or the reflectance exceeds
\* the value drawn.
DielectricReflect(mat, inputRay, rec) ==
  LET d == DielectricSetup(mat, inputRay, rec)
  IN [ok |-> TRUE, attenuation |-> Vec(1, 1, 1),
      ray |-> [origin |-> rec.pos,
               dir |-> Reflect(d.normalizedDirection, rec.normal)]]

\* Dielectric::scatter when it can refract, r being what randomFloat() returned.
DielectricScatter(mat, inputRay, rec, r) ==
  LET d == DielectricSetup(mat, inputRay, rec)
  IN IF FGt(CalcReflectance(d.cosTheta, d.refractionRatio), r)
     THEN DielectricReflect(mat, inputRay, rec)
     ELSE [ok |-> TRUE, attenuation |-> Vec(1, 1, 1),
           ray |-> [origin |-> rec.pos,
                    dir |-> Refract(d.normalizedDirection, rec.normal,
                                    d.refractionRatio)]]

\* ------------------------------------------------- render::work, one thread
\* A thread of work(startRow, numRows) is at one of these places:
\*   "jitterU", "jitterV"      about to call randomFloat for u, for v
\*   "lens1", "lens2"          in randomPointInUnitDisc, called by getRay,
\*                             about to make its first, second call of
\*                             randomFloat
\*   "trace"                   entering rayColor(ray, world, depth)
\*   "scatter1" .. "scatter3"  in randomPointInUnitSphere, called by scatter,
\*                             about to make its first .. third call
\*   "reflectance"             about to call randomFloat in Dielectric::scatter
\*   "store"                   about to assign image.pixels[y * width + x]
\*   "finished"                returned from work
\* and "unborn" before its std::thread is constructed.
DrawPcs == {"jitterU", "jitterV", "lens1", "lens2", "scatter1", "scatter2",
            "scatter3", "reflectance"}
NoRay == [origin |-> Vec(0, 0, 0), dir |-> Vec(0, 0, 0)]
Unborn ==
  [pc |-> "unborn", startRow |-> 0, numRows |-> 0, y |-> 0, x |-> 0, s |-> 0,
   color |-> Vec(0, 0, 0), u |-> Fin(0), v |-> Fin(0), d1 |-> Fin(0),
   d2 |-> Fin(0), ray |-> NoRay, depth |-> 0, attenuations |-> <<>>,
   rec |-> NoRecord]

\* The sample loop of one pixel begins: color = 0, s = 0.
PixelStart(ws) ==
  [ws EXCEPT !.color = Vec(0, 0, 0), !.s = 0,
             !.pc = IF 0 < samplesPerPixel THEN "jitterU" ELSE "store"]

\* work(startRow, numRows) begins: the first pixel of the first row, if any.
WorkerStart(startRow, numRows) ==
  IF startRow < startRow + numRows /\ 0 < image.width
  THEN PixelStart([Unborn EXCEPT !.startRow = startRow, !.numRows = numRows,
                                 !.y = startRow, !.x = 0])
  ELSE [Unborn EXCEPT !.startRow = startRow, !.numRows = numRows,
                      !.y = startRow + numRows, !.pc = "finished"]

\* The calls of rayColor return, innermost first: each level multiplies what
\* the level below returned by its attenuation.
RECURSIVE Unwind(_, _)
Unwind(attenuations, c) ==
  IF attenuations = <<>> THEN c
  ELSE Unwind(SubSeq(attenuations, 1, Len(attenuations) - 1),
              VMul(attenuations[Len(attenuations)], c))

\* The outermost rayColor has returned: color += ..., s++.
SampleDone(ws, c) ==
  [ws EXCEPT !.color = VAdd(ws.color, Unwind(ws.attenuations, c)),
             !.s = ws.s + 1,
             !.pc = IF ws.s + 1 < samplesPerPixel THEN "jitterU" ELSE "store",
             !.u = Fin(0), !.v = Fin(0), !.d1 = Fin(0), !.d2 = Fin(0),
             !.ray = NoRay, !.depth = 0, !.attenuations = <<>>,
             !.rec = NoRecord]

\* rayColor after scatter returned sc: recurse on the scattered ray, or black.
Bounce(ws, sc) ==
  IF sc.ok
  THEN [ws EXCEPT !.attenuations = Append(ws.attenuations, sc.attenuation),
                  !.ray = sc.ray, !.depth = ws.depth - 1, !.pc = "trace",
                  !.d1 = Fin(0), !.d2 = Fin(0), !.rec = NoRecord]
  ELSE SampleDone(ws, Vec(0, 0, 0))

ShadowAcneConstant == FLit(1, 1000)
\* rayColor on a miss: the sky gradient.
SkyColor(r) ==
  LET unitDir == VNormalize(r.dir)
      t == FMul(FLit(1, 2), FAdd(unitDir[2], Lit(1)))
  IN VAdd(VScale(FSub(Lit(1), t), Vec(1, 1, 1)),
          VScale(t, <<FLit(5, 10), FLit(7, 10), Lit(1)>>))

\* rayColor(ray, world, depth) from its entry to its first call of
\* randomFloat, or to its return.
Trace(ws) ==
  IF ws.depth <= 0 THEN SampleDone(ws, Vec(0, 0, 0))
  ELSE LET h == WorldHit(objects, ws.ray, ShadowAcneConstant, Lit(100), NoRecord)
           mat == h.hitRecord.material
       IN IF ~h.hitAnything THEN SampleDone(ws, SkyColor(ws.ray))
          ELSE IF mat.kind = "Dielectric"
          THEN IF DielectricSetup(mat, ws.ray, h.hitRecord).cannotRefract
               THEN Bounce(ws, DielectricReflect(mat, ws.ray, h.hitRecord))
               ELSE [ws EXCEPT !.rec = h.hitRecord, !.pc = "reflectance"]
          ELSE [ws EXCEPT !.rec = h.hitRecord, !.pc = "scatter1"]

\* glm::vec3(randomFloat(-1, 1), randomFloat(-1, 1), randomFloat(-1, 1)) and
\* glm::vec3(randomFloat(-1, 1), randomFloat(-1, 1), 0.0f): the order in which
\* the arguments are evaluated is the compiler's; a, b, c are the values in
\* the order they were drawn.
SpherePoint(a, b, c) == IF argsLeftToRight THEN <<a, b, c>> ELSE <<c, b, a>>
DiscPoint(a, b) == IF argsLeftToRight THEN <<a, b, Fin(0)>> ELSE <<b, a, Fin(0)>>

\* The thread's step at a call of randomFloat() that returned r.
AfterDraw(ws, r) ==
  CASE ws.pc = "jitterU" ->
         [ws EXCEPT !.u = FDiv(FAdd(Lit(ws.x), RandomRange(Lit(0), Lit(1), r)),
                               Lit(image.width - 1)),
                    !.pc = "jitterV"]
    [] ws.pc = "jitterV" ->
         [ws EXCEPT !.v = FDiv(FAdd(Lit(ws.y), RandomRange(Lit(0), Lit(1), r)),
                               Lit(image.height - 1)),
                    !.pc = "lens1"]
    [] ws.pc = "lens1" ->
         [ws EXCEPT !.d1 = RandomRange(Lit(-1), Lit(1), r), !.pc = "lens2"]
    [] ws.pc = "lens2" ->
         LET point == DiscPoint(ws.d1, RandomRange(Lit(-1), Lit(1), r))
         IN IF FLt(VLength2(point), Lit(1))
            THEN [ws EXCEPT !.ray = GetRay(camera, ws.u, ws.v, point),
                            !.depth = maxDepth, !.attenuations = <<>>,
                            !.d1 = Fin(0), !.pc = "trace"]
            ELSE [ws EXCEPT !.d1 = Fin(0), !.pc = "lens1"]
    [] ws.pc = "scatter1" ->
         [ws EXCEPT !.d1 = RandomRange(Lit(-1), Lit(1), r), !.pc = "scatter2"]
    [] ws.pc = "scatter2" ->
         [ws EXCEPT !.d2 = RandomRange(Lit(-1), Lit(1), r), !.pc = "scatter3"]
    [] ws.pc = "scatter3" ->
         LET point == SpherePoint(ws.d1, ws.d2, RandomRange(Lit(-1), Lit(1), r))
             mat == ws.rec.material
         IN IF FLt(VLength(point), Lit(1))
            THEN Bounce(ws, IF mat.kind = "Metal"
                            THEN MetalScatter(mat, ws.ray, ws.rec, point)
                            ELSE LambertianScatter(mat, ws.ray, ws.rec, point))
            ELSE [ws EXCEPT !.d1 = Fin(0), !.d2 = Fin(0), !.pc = "scatter1"]
    [] ws.pc = "reflectance" ->
         Bounce(ws, DielectricScatter(ws.rec.material, ws.ray, ws.rec, r))

\* The colour work stores: the mean of the samples, gamma 2, clamped.
FinalColor(color) ==
  LET mean == VDivF(color, Lit(samplesPerPixel))
      gamma == <<FSqrt(mean[1]), FSqrt(mean[2]), FSqrt(mean[3])>>
      Clamp(x) == FMin(FMax(x, Lit(0)), FLit(999, 1000))
  IN <<Clamp(gamma[1]), Clamp(gamma[2]), Clamp(gamma[3])>>

\* The index of pixel (x, y) in image.pixels.
PixelIndexNoStride(y, x) == y + x
PixelIndex(y, x) == y * image.width + x

\* The loops of work step to the next pixel of the thread's rows, or end.
AfterStore(ws) ==
  IF ws.x + 1 < image.width THEN PixelStart([ws EXCEPT !.x = ws.x + 1])
  ELSE IF ws.y + 1 < ws.startRow + ws.numRows
  THEN PixelStart([ws EXCEPT !.y = ws.y + 1, !.x = 0])
  ELSE [ws EXCEPT !.y = ws.y + 1, !.x = 0, !.s = 0, !.color = Vec(0, 0, 0),
                  !.pc = "finished"]

\* ------------------------------------------------- claims on the scene query
\* Object k's own answer to the query, in the caller's window.
Own(k) == SphereHit(objects[k], ray, t_min, t_max)
Accepting == {k \in 1..Len(objects) : Own(k).hit}
\* Object k is hit at a finite t and no object is hit closer.
Nearest(k) ==
  /\ k \in Accepting
  /\ IsFin(Own(k).rec.t)
  /\ \A m \in Accepting : ~FLt(Own(m).rec.t, Own(k).rec.t)
TiedWith(k) == {m \in Accepting : Own(m).rec.t = Own(k).rec.t}
Reorderings(n) == Permutations(1..n)

\* C7, as the specification states it: when two objects are hit at the same
\* accepted t and none is hit closer, World::hit returns the record (material,
\* normal) of the one added first.
C7_TieFirstAdded ==
  hitPc = "returned" =>
    \A a \in 1..Len(objects) :
      (Nearest(a) /\ (\E b \in TiedWith(a) : a < b) /\ (\A m \in TiedWith(a) : a <= m))
        => /\ hitRecord.material = Own(a).rec.material
           /\ hitRecord.normal = Own(a).rec.normal

\* C7, amended: when two or more objects are hit at the same accepted finite t
\* and none is hit closer, World::hit returns the record of the one among
\* them that was added last.
C7_TieLastAdded ==
  hitPc = "returned" =>
    \A b \in 1..Len(objects) :
      (Nearest(b) /\ (\E a \in TiedWith(b) : a < b) /\ (\A m \in TiedWith(b) : m <= b))
        => hitAnything /\ hitRecord = Own(b).rec

\* C7's case: World::hit has returned on a list in which two objects of
\* different materials are hit at the same nearest t.
C7_Witness ==
  /\ hitPc = "returned"
  /\ \E a, b \in 1..Len(objects) :
       /\ a < b /\ Nearest(a) /\ b \in TiedWith(a)
       /\ Own(a).rec.material # Own(b).rec.material
       /\ hitRecord.material = Own(b).rec.material

\* C8: World::hit returns true exactly when some object has an accepted hit in
\* the window; the returned t is then the least accepted t over all objects,
\* whatever the order of the list; on false the caller's record is untouched.
C8_WorldHitNearest ==
  hitPc = "returned" =>
    /\ hitAnything = (Accepting # {})
    /\ hitAnything =>
         /\ \E k \in Accepting : Own(k).rec.t = hitRecord.t
         /\ \A k \in Accepting : ~FLt(Own(k).rec.t, hitRecord.t)
    /\ ~hitAnything => hitRecord = callerRecord
    /\ \A p \in Reorderings(Len(objects)) :
         LET other == WorldHit([k \in 1..Len(objects) |-> objects[p[k]]],
                               ray, t_min, t_max, callerRecord)
         IN /\ other.hitAnything = hitAnything
            /\ other.hitRecord.t = hitRecord.t

\* C8's case: World::hit has returned true on a list in which a later object is
\* hit closer than an earlier one.
C8_Witness ==
  /\ hitPc = "returned" /\ hitAnything
  /\ \E a, b \in Accepting : a < b /\ FLt(Own(b).rec.t, Own(a).rec.t)

\* C9, as the specification states it: for a ray whose direction has zero
\* length Sphere::hit reports no hit, and it never returns true with a record
\* whose t or position is NaN or infinite.
C9_ZeroDirectionNoHit ==
  (idx > 0 /\ VLength2(ray.dir) = Fin(0)) =>
    /\ ~tempHit
    /\ tempHit => /\ IsFin(tempRecord.t)
                  /\ \A a \in 1..3 : IsFin(tempRecord.pos[a])

\* Sphere::hit's quadratic for the query's ray against `sphere`: the
\* discriminant and the two roots, the smaller first.
SphereRoots(sphere, r) ==
  LET originToCenter == VSub(r.origin, sphere.center)
      a == VLength2(r.dir)
      half_b == VDot(originToCenter, r.dir)
      c == FSub(VLength2(originToCenter), FMul(sphere.radius, sphere.radius))
      discriminant == FSub(FMul(half_b, half_b), FMul(a, c))
      sqrtd == FSqrt(discriminant)
  IN [discriminant |-> discriminant,
      smaller |-> FDiv(FSub(FNeg(half_b), sqrtd), a),
      larger |-> FDiv(FAdd(FNeg(half_b), sqrtd), a)]
\* World::hit has made its first call of Sphere::hit, which is handed the
\* caller's window as it is; the call's answer is in tempHit and tempRecord.
FirstSphereHitDone == idx = 1

\* C13, as the code has it: Sphere::hit with a discriminant that is not
\* negative evaluates the smaller root first and accepts it unless it is below
\* t_min or above t_max; otherwise it tries the larger root under the same
\* test; otherwise it reports no hit.  A root equal to t_min or to t_max is
\* accepted, and every accepted t is neither below t_min nor above t_max.
C13_ClosedWindow ==
  LET q == SphereRoots(objects[1], ray)
      Inside(root) == ~FLt(root, t_min) /\ ~FGt(root, t_max)
  IN (FirstSphereHitDone /\ ~FLt(q.discriminant, Fin(0))) =>
       /\ IF Inside(q.smaller) THEN tempHit /\ tempRecord.t = q.smaller
          ELSE IF Inside(q.larger) THEN tempHit /\ tempRecord.t = q.larger
          ELSE ~tempHit
       /\ tempHit => Inside(tempRecord.t)

\* C13, as the specification states it: a root is accepted only if it lies in
\* the half-open window (t_min, t_max]; a root equal to t_min is never
\* accepted and every accepted t satisfies t_min < t <= t_max.
C13_HalfOpenWindow ==
  LET q == SphereRoots(objects[1], ray)
      Inside(root) == FGt(root, t_min) /\ FGe(t_max, root)
  IN (FirstSphereHitDone /\ ~FLt(q.discriminant, Fin(0))) =>
       /\ IF Inside(q.smaller) THEN tempHit /\ tempRecord.t = q.smaller
          ELSE IF Inside(q.larger) THEN tempHit /\ tempRecord.t = q.larger
          ELSE ~tempHit
       /\ tempHit => Inside(tempRecord.t)
       /\ tempHit => tempRecord.t # t_min

\* Sphere::hit has accepted a smaller root that equals t_min.
C13_Witness ==
  /\ FirstSphereHitDone
  /\ tempHit
  /\ IsFin(tempRecord.t)
  /\ tempRecord.t = t_min
  /\ tempRecord.t = SphereRoots(objects[1], ray).smaller

\* C14, as the specification states it: after every accepted Sphere::hit
\* (radius positive or negative) the recorded normal opposes the incoming ray,
\* dot(ray.dir, normal) <= 0; the front-face flag is true exactly when
\* dot(ray.dir, outwardNormal) < 0 with outwardNormal = (hitPoint - center) /
\* radius; and the record carries the struck sphere's own material.
C14_NormalOpposesRay ==
  (idx > 0 /\ tempHit) =>
    LET sphere == objects[idx]
        outwardNormal ==
          VDivF(VSub(tempRecord.pos, sphere.center), sphere.radius)
    IN /\ FGe(Fin(0), VDot(ray.dir, tempRecord.normal))
       /\ tempRecord.frontFace = FLt(VDot(ray.dir, outwardNormal), Fin(0))
       /\ tempRecord.material = sphere.material

\* -------------------------------------------------------------- writeImage
\* Image::Image: the buffer holds width * height value-initialised pixels.
NewImage(width, height) ==
  [width |-> width, height |-> height,
   pixels |-> [n \in 0..(width * height - 1) |-> Vec(0, 0, 0)]]

\* The conversion of a float to int.  A finite value loses its fraction.  NaN
\* and the infinities have no int: the conversion is undefined and the result
\* is what the instruction at hand leaves, the least int or zero.
UndefinedInts == {-2147483647 - 1, 0}
FloatToInt(x) == IF IsFin(x) THEN {TruncDiv(x.v, Q)} ELSE UndefinedInts
\* glm::ivec3 colorInt = color * glm::vec3(256.0f): the triples it can hold.
ColorInt(color) ==
  { <<r, g, b>> : r \in FloatToInt(FMul(color[1], Lit(256))),
                  g \in FloatToInt(FMul(color[2], Lit(256))),
                  b \in FloatToInt(FMul(color[3], Lit(256))) }

\* writeImage is not running.
WriteIdle ==
  /\ out = <<>>
  /\ line = <<>>
  /\ wy = 0
  /\ wx = 0
  /\ writePc = "idle"

\* Inputs of the writer specification: colours with every channel in [0,1].
Half == Fin(Q \div 2)
WriteColors ==
  { <<Lit(1), Lit(0), Lit(0)>>, <<Lit(0), Lit(1), Lit(0)>>, <<Half, Half, Lit(1)>> }
WriteImages ==
  UNION { { [width |-> w, height |-> h, pixels |-> px] :
              px \in [0..(w * h - 1) -> WriteColors] } :
          w \in 0..WriteMaxWidth, h \in 0..WriteMaxHeight }

WriteInit ==
  /\ image \in WriteImages
  /\ out = <<>>
  /\ line = <<>>
  /\ wy = 0
  /\ wx = 0
  /\ writePc = "header"

\* writeImage: the three header lines, then y = image.height - 1.
WriteHeader ==
  /\ writePc = "header"
  /\ out' = << <<"P3">>, <<image.width, image.height>>, <<255>> >>
  /\ line' = <<>>
  /\ wy' = ToInt32(image.height - 1)
  /\ wx' = 0
  /\ writePc' = "rows"
  /\ UNCHANGED image
  /\ UNCHANGED <<sceneVars, renderVars, hitVars, colorVars>>

\* writeImage: the inner loop's body, one pixel's three integers.
WritePixel ==
  /\ writePc = "rows"
  /\ wy >= 0
  /\ wx < image.width
  /\ \E colorInt \in ColorInt(image.pixels[wy * image.width + wx]) :
       line' = line \o colorInt
  /\ wx' = wx + 1
  /\ UNCHANGED <<image, out, wy, writePc>>
  /\ UNCHANGED <<sceneVars, renderVars, hitVars, colorVars>>

\* writeImage: the inner loop is over, std::endl ends the row, y--.
WriteEndRow ==
  /\ writePc = "rows"
  /\ wy >= 0
  /\ wx >= image.width
  /\ out' = Append(out, line)
  /\ line' = <<>>
  /\ wy' = wy - 1
  /\ wx' = 0
  /\ UNCHANGED <<image, writePc>>
  /\ UNCHANGED <<sceneVars, renderVars, hitVars, colorVars>>

\* writeImage: the outer loop is over, fout.close().
WriteClose ==
  /\ writePc = "rows"
  /\ wy < 0
  /\ writePc' = "closed"
  /\ UNCHANGED <<image, out, line, wy, wx>>
  /\ UNCHANGED <<sceneVars, renderVars, hitVars, colorVars>>

WriteNext == WriteHeader \/ WritePixel \/ WriteEndRow \/ WriteClose

\* rayColor runs from its entry up to the thread's next call of randomFloat or
\* to the return of the outermost call: it reads the ray, the world and its
\* own locals only.
RECURSIVE Settle(_)
Settle(ws) == IF ws.pc = "trace" THEN Settle(Trace(ws)) ELSE ws

\* ---------------------------------------------------------------- rayColor
\* rayColor(ray, world, depth), one activation at a time.  An activation is at
\* one of these places:
\*   "entry"        at the test depth <= 0
\*   "query"        about to call world.hit
\*   "scatter"      about to call hitRecord.material->scatter
\*   "sample"       inside scatter, in the loop of randomPointInUnitSphere
\*   "reflectance"  inside Dielectric::scatter, about to call randomFloat
\*   "recurse"      scatter returned true, about to call rayColor again
\*   "awaiting"     waiting for that call to return
\*   "return"       about to return `value`
\* `queries` and `scatters` count the activation's calls of world.hit and of
\* scatter, `drew` tells whether it has called randomFloat, `passes` is the
\* number of passes it has made through the sampling loop's body, kept modulo
\* 2 (a pass consumes three draws, so it changes the state even when the point
\* is rejected), `cause` names the return statement it left by.
Frame(r, depth) ==
  [ray |-> r, depth |-> depth, pc |-> "entry", hitRecord |-> NoRecord,
   attenuation |-> Vec(0, 0, 0), scatteredRay |-> NoRay,
   refractionRatio |-> Fin(0), value |-> Vec(0, 0, 0), cause |-> "none",
   queries |-> 0, scatters |-> 0, drew |-> FALSE, passes |-> 0]
NoReturn == [Frame(NoRay, 0) EXCEPT !.pc = "none"]

\* rayColor is not running.
ColorIdle ==
  /\ callStack = <<>>
  /\ returned = NoReturn

\* ------------------------------------------------------------- randomFloat
\* The generator's stream: the value randomFloat returns at place g of the
\* stream, and the place after it.  The stream repeats after GenPeriod values.
GenOut(g) == IF g = GenPeriod - 1 THEN Fin(0) ELSE Half
GenNext(g) == (g + 1) % GenPeriod
\* The values a call of randomFloat can return.
RandValues == {Fin(0), Half}
\* The generator after unsynchronised calls from two threads: its state is
\* whatever the colliding updates left.
Indeterminate == -1

\* ------------------------------------------------------------------ render
\* Inputs of the render specification.
UnitSphere(material) ==
  [center |-> Vec(0, 0, -2), radius |-> Lit(1), material |-> material]
RenderWorlds ==
  { <<>>,
    <<UnitSphere(Lambertian(Vec(1, 1, 1)))>>,
    <<UnitSphere(Metal(Vec(1, 1, 1), Fin(0)))>>,
    <<UnitSphere(Dielectric(FLit(3, 2)))>> }
RenderCamera == Camera(Vec(0, 0, 0), Vec(0, 0, -1), Lit(1), Lit(1), Lit(0), Lit(1))

Workers == 0..(numThreads - 1)
Cells == 0..(image.width * image.height - 1)

\* render is not running.
RenderIdle ==
  /\ samplesPerPixel = 1
  /\ maxDepth = 0
  /\ numThreads = 1
  /\ argsLeftToRight = TRUE
  /\ rowsPerThread = 0
  /\ i = 0
  /\ workerThreads = <<>>
  /\ joined = 0
  /\ renderPc = "idle"
  /\ generator = 0
  /\ generatorUsers = {}
  /\ written = <<>>

\* main up to its call of render.
InitRender ==
  /\ image \in {NewImage(w, h) : w \in 0..MaxWidth, h \in 0..MaxHeight}
  /\ objects \in RenderWorlds
  /\ camera = RenderCamera
  /\ samplesPerPixel \in 1..MaxSamples
  /\ maxDepth \in 0..MaxDepth
  /\ numThreads \in 1..MaxThreads
  /\ argsLeftToRight \in BOOLEAN
  /\ rowsPerThread = 0
  /\ i = 0
  /\ workerThreads = [n \in Workers |-> Unborn]
  /\ joined = 0
  /\ renderPc = "start"
  /\ generator = 0
  /\ generatorUsers = {}
  /\ written = [c \in Cells |-> <<>>]
  /\ HitIdle
  /\ WriteIdle
  /\ ColorIdle

\* main up to its call of render, for the spawn loop taken alone: taller
\* images and more threads.
InitSpawn ==
  /\ image \in {NewImage(w, h) : w \in 0..MaxWidth, h \in 0..SpawnMaxHeight}
  /\ objects = <<>>
  /\ camera = RenderCamera
  /\ samplesPerPixel = 1
  /\ maxDepth = 0
  /\ numThreads \in 1..SpawnMaxThreads
  /\ argsLeftToRight = TRUE
  /\ rowsPerThread = 0
  /\ i = 0
  /\ workerThreads = [n \in Workers |-> Unborn]
  /\ joined = 0
  /\ renderPc = "start"
  /\ generator = 0
  /\ generatorUsers = {}
  /\ written = [c \in Cells |-> <<>>]
  /\ HitIdle
  /\ WriteIdle
  /\ ColorIdle

\* The rows the spawn loop hands to thread n.
RowsToProcessNoRemainder(n) == rowsPerThread
RowsToProcess(n) ==
  IF n = numThreads - 1
  THEN image.height - ((numThreads - 1) * rowsPerThread)
  ELSE rowsPerThread
StartRow(n) == ToInt32(n * rowsPerThread)

\* What a step of a worker thread leaves alone: the world and the camera are
\* const references, the parameters are captured by reference and only read.
WorkerFrameDropsWorld ==
  /\ objects' = <<>>
  /\ UNCHANGED <<camera, paramVars, argsLeftToRight, rowsPerThread, i, joined,
                 renderPc, hitVars, colorVars, fileVars>>
WorkerFrame ==
  UNCHANGED <<sceneVars, paramVars, argsLeftToRight, rowsPerThread, i, joined,
              renderPc, hitVars, colorVars, fileVars>>

\* render: rowsPerThread = image.height / numThreads.
RenderBegin ==
  /\ renderPc = "start"
  /\ rowsPerThread' = image.height \div numThreads
  /\ i' = 0
  /\ renderPc' = "spawn"
  /\ UNCHANGED <<sceneVars, paramVars, argsLeftToRight, workerThreads, joined,
                 generator, generatorUsers, written, hitVars, colorVars, writeVars>>

\* render: one pass of the spawn loop, the thread starts at the top of work.
RenderSpawn ==
  /\ renderPc = "spawn"
  /\ i < numThreads
  /\ workerThreads' =
       [workerThreads EXCEPT ![i] = WorkerStart(StartRow(i), RowsToProcess(i))]
  /\ i' = i + 1
  /\ UNCHANGED <<sceneVars, paramVars, argsLeftToRight, rowsPerThread, joined,
                 renderPc, generator, generatorUsers, written, hitVars, colorVars,
                 writeVars>>

\* render: the spawn loop is over, the for_each of join begins.
RenderSpawned ==
  /\ renderPc = "spawn"
  /\ i >= numThreads
  /\ renderPc' = "join"
  /\ UNCHANGED <<sceneVars, paramVars, argsLeftToRight, rowsPerThread, i,
                 workerThreads, joined, generator, generatorUsers, written,
                 hitVars, colorVars, writeVars>>

\* render: t.join() returns once the thread has returned from work.
JoinReadyAlways(n) == TRUE
JoinReady(n) == workerThreads[n].pc = "finished"
RenderJoin ==
  /\ renderPc = "join"
  /\ joined < numThreads
  /\ JoinReady(joined)
  /\ joined' = joined + 1
  /\ UNCHANGED <<sceneVars, paramVars, argsLeftToRight, rowsPerThread, i,
                 workerThreads, renderPc, generator, generatorUsers, written,
                 hitVars, colorVars, writeVars>>

\* render: every thread is joined, "Rendering done!", return.
RenderDone ==
  /\ renderPc = "join"
  /\ joined >= numThreads
  /\ renderPc' = "done"
  /\ UNCHANGED <<sceneVars, paramVars, argsLeftToRight, rowsPerThread, i,
                 workerThreads, joined, generator, generatorUsers, written,
                 hitVars, colorVars, writeVars>>

\* Thread w calls randomFloat.  The generator is one function-local static
\* shared by every caller and nothing orders the calls of two threads: while
\* one thread only has used it since render began the call returns the next
\* value of the stream; from the second thread's first call on the calls race
\* and return any value.
WorkerDraw(w) ==
  /\ workerThreads[w].pc \in DrawPcs
  /\ generatorUsers' = generatorUsers \cup {w}
  /\ \E r \in RandValues :
       /\ IF generatorUsers' = {w} /\ generator # Indeterminate
          THEN /\ r = GenOut(generator)
               /\ generator' = GenNext(generator)
          ELSE generator' = Indeterminate
       /\ workerThreads' =
            [workerThreads EXCEPT ![w] = Settle(AfterDraw(workerThreads[w], r))]
  /\ UNCHANGED <<image, written>>
  /\ WorkerFrame

\* Thread w assigns image.pixels[y * image.width + x] and steps its loops.
WorkerStore(w) ==
  /\ workerThreads[w].pc = "store"
  /\ LET ws == workerThreads[w]
         cell == PixelIndex(ws.y, ws.x)
     IN /\ image' = [image EXCEPT !.pixels[cell] = FinalColor(ws.color)]
        /\ written' = [written EXCEPT ![cell] = Append(@, w)]
        /\ workerThreads' = [workerThreads EXCEPT ![w] = AfterStore(ws)]
  /\ UNCHANGED <<generator, generatorUsers>>
  /\ WorkerFrame

\* main: render has returned, writeImage is called.
MainWriteImage ==
  /\ renderPc = "done"
  /\ writePc = "idle"
  /\ writePc' = "header"
  /\ UNCHANGED <<image, out, line, wy, wx>>
  /\ UNCHANGED <<sceneVars, renderVars, hitVars, colorVars>>

\* ------------------------------------------------------- rayColor, stepwise
\* Inputs of the rayColor specification.
TraceWorlds ==
  { <<>>,
    <<UnitSphere(Lambertian(Vec(1, 1, 1)))>>,
    <<UnitSphere(Metal(Vec(1, 1, 1), Lit(2)))>>,
    <<UnitSphere(Dielectric(FLit(3, 2)))>>,
    <<UnitSphere(Dielectric(Lit(2)))>>,
    <<[center |-> Vec(0, 0, -2), radius |-> Lit(-1),
       material |-> Dielectric(FLit(3, 2))]>> }
TraceRays ==
  { [origin |-> Vec(0, 0, 0), dir |-> Vec(0, 0, -1)],
    [origin |-> Vec(0, 0, 0), dir |-> Vec(0, 1, 0)],
    [origin |-> Vec(0, 0, -2), dir |-> Vec(0, 0, -1)],
    [origin |-> Vec(0, 0, 0), dir |-> Vec(1, 0, -2)],
    [origin |-> <<Fin(3), Fin(0), Lit(-2)>>, dir |-> Vec(0, 0, -1)] }
\* The values a call of randomFloat returns in the rayColor specification.
TraceDraws == {Fin(0), Fin(1), Half}

\* main's call of rayColor, on every input of the bounded sets.  The order in
\* which the build evaluates arguments is left at one value: the sample step
\* ranges over every triple of draws, so the points are those of either order.
InitRayColor ==
  /\ objects \in TraceWorlds
  /\ camera = RenderCamera
  /\ image = NewImage(0, 0)
  /\ RenderIdle
  /\ HitIdle
  /\ WriteIdle
  /\ \E r \in TraceRays, depth \in (-1)..TraceMaxDepth :
       callStack = <<Frame(r, depth)>>
  /\ returned = NoReturn

\* The activation that is running, and the stack with it replaced.
Top == callStack[Len(callStack)]
SetTop(f) == [callStack EXCEPT ![Len(callStack)] = f]

\* if (depth <= 0) return glm::vec3(0.0f)
DepthExhaustedBelowZero(depth) == depth < 0
DepthExhausted(depth) == depth <= 0
\* The depth rayColor hands to its recursive call.
ChildDepthSame(depth) == depth
ChildDepth(depth) == depth - 1

\* scatter has returned sc: the activation holds its out-parameters and goes
\* on to the recursive call, or returns black.
Scattered(f, sc) ==
  IF sc.ok
  THEN [f EXCEPT !.attenuation = sc.attenuation, !.scatteredRay = sc.ray,
                 !.pc = "recurse"]
  ELSE [f EXCEPT !.attenuation = sc.attenuation, !.scatteredRay = sc.ray,
                 !.pc = "return", !.value = Vec(0, 0, 0),
                 !.cause = "absorbed"]

\* rayColor: the test of depth.
RayColorEntry ==
  /\ callStack # <<>>
  /\ Top.pc = "entry"
  /\ callStack' =
       SetTop(IF DepthExhausted(Top.depth)
              THEN [Top EXCEPT !.pc = "return", !.value = Vec(0, 0, 0),
                               !.cause = "depth"]
              ELSE [Top EXCEPT !.pc = "query"])
  /\ UNCHANGED returned
  /\ UNCHANGED <<sceneVars, renderVars, hitVars, writeVars>>

\* rayColor: world.hit(ray, shadowAcneConstant, 100.0f, hitRecord); on a miss
\* the sky gradient is returned.
RayColorHit ==
  /\ callStack # <<>>
  /\ Top.pc = "query"
  /\ LET h == WorldHit(objects, Top.ray, ShadowAcneConstant, Lit(100),
                       Top.hitRecord)
     IN callStack' =
          SetTop(IF h.hitAnything
                 THEN [Top EXCEPT !.queries = @ + 1, !.hitRecord = h.hitRecord,
                                  !.pc = "scatter"]
                 ELSE [Top EXCEPT !.queries = @ + 1, !.hitRecord = h.hitRecord,
                                  !.pc = "return", !.value = SkyColor(Top.ray),
                                  !.cause = "miss"])
  /\ UNCHANGED returned
  /\ UNCHANGED <<sceneVars, renderVars, hitVars, writeVars>>

\* rayColor calls hitRecord.material->scatter; scatter runs up to its first
\* call of randomFloat, or to its return if it makes none.
RayColorScatter ==
  /\ callStack # <<>>
  /\ Top.pc = "scatter"
  /\ LET mat == Top.hitRecord.material
         d == DielectricSetup(mat, Top.ray, Top.hitRecord)
         f == [Top EXCEPT !.scatters = @ + 1]
     IN callStack' =
          SetTop(IF mat.kind = "Dielectric"
                 THEN IF d.cannotRefract
                      THEN Scattered([f EXCEPT !.refractionRatio = d.refractionRatio],
                                     DielectricReflect(mat, Top.ray, Top.hitRecord))
                      ELSE [f EXCEPT !.refractionRatio = d.refractionRatio,
                                     !.pc = "reflectance"]
                 ELSE [f EXCEPT !.pc = "sample"])
  /\ UNCHANGED returned
  /\ UNCHANGED <<sceneVars, renderVars, hitVars, writeVars>>

\* One pass of randomPointInUnitSphere's loop, in Lambertian::scatter or
\* Metal::scatter: three draws, and the point is returned or the loop repeats.
RayColorSample ==
  /\ callStack # <<>>
  /\ Top.pc = "sample"
  /\ \E a, b, c \in TraceDraws :
       LET point == SpherePoint(RandomRange(Lit(-1), Lit(1), a),
                                RandomRange(Lit(-1), Lit(1), b),
                                RandomRange(Lit(-1), Lit(1), c))
           mat == Top.hitRecord.material
           f == [Top EXCEPT !.drew = TRUE, !.passes = (@ + 1) % 2]
       IN callStack' =
            SetTop(IF FLt(VLength(point), Lit(1))
                   THEN Scattered(f, IF mat.kind = "Metal"
                                     THEN MetalScatter(mat, Top.ray, Top.hitRecord, point)
                                     ELSE LambertianScatter(mat, Top.ray, Top.hitRecord, point))
                   ELSE f)
  /\ UNCHANGED returned
  /\ UNCHANGED <<sceneVars, renderVars, hitVars, writeVars>>

\* Dielectric::scatter: the draw compared with the reflectance.
RayColorReflectance ==
  /\ callStack # <<>>
  /\ Top.pc = "reflectance"
  /\ \E r \in TraceDraws :
       callStack' =
         SetTop(Scattered([Top EXCEPT !.drew = TRUE],
                          DielectricScatter(Top.hitRecord.material, Top.ray,
                                            Top.hitRecord, r)))
  /\ UNCHANGED returned
  /\ UNCHANGED <<sceneVars, renderVars, hitVars, writeVars>>

\* rayColor: the call rayColor(scatteredRay, world, depth - 1).
RayColorRecurse ==
  /\ callStack # <<>>
  /\ Top.pc = "recurse"
  /\ callStack' = Append(SetTop([Top EXCEPT !.pc = "awaiting"]),
                         Frame(Top.scatteredRay, ChildDepth(Top.depth)))
  /\ UNCHANGED returned
  /\ UNCHANGED <<sceneVars, renderVars, hitVars, writeVars>>

\* rayColor returns; its caller, if it is rayColor, goes on to return
\* attenuation * the value.
RayColorReturn ==
  /\ callStack # <<>>
  /\ Top.pc = "return"
  /\ returned' = Top
  /\ LET rest == SubSeq(callStack, 1, Len(callStack) - 1)
         caller == rest[Len(rest)]
     IN callStack' =
          IF rest = <<>> THEN rest
          ELSE [rest EXCEPT ![Len(rest)] =
                  [caller EXCEPT !.pc = "return",
                                 !.value = VMul(caller.attenuation, Top.value),
                                 !.cause = "child"]]
  /\ UNCHANGED <<sceneVars, renderVars, hitVars, writeVars>>

RayColorNext ==
  \/ RayColorEntry
  \/ RayColorHit
  \/ RayColorScatter
  \/ RayColorSample
  \/ RayColorReflectance
  \/ RayColorRecurse
  \/ RayColorReturn

\* ----------------------------------------------------------- specifications
\* World::hit on every query of the bounded input sets.
InitHit ==
  /\ HitInit
  /\ camera = RenderCamera
  /\ image = NewImage(0, 0)
  /\ RenderIdle
  /\ WriteIdle
  /\ ColorIdle
SpecHit == InitHit /\ [][HitNext]_vars
\* writeImage on every image of the bounded input sets.
InitWrite ==
  /\ WriteInit
  /\ objects = <<>>
  /\ camera = RenderCamera
  /\ RenderIdle
  /\ HitIdle
  /\ ColorIdle
SpecWrite == InitWrite /\ [][WriteNext]_vars
\* The program: main calls render, then writeImage.
Next ==
  \/ RenderBegin
  \/ RenderSpawn
  \/ RenderSpawned
  \/ \E w \in Workers : WorkerDraw(w)
  \/ \E w \in Workers : WorkerStore(w)
  \/ RenderJoin
  \/ RenderDone
  \/ MainWriteImage
  \/ WriteHeader
  \/ WritePixel
  \/ WriteEndRow
  \/ WriteClose
Spec == InitRender /\ [][Next]_vars

\* render's spawn loop before any worker is scheduled.
SpawnNext == RenderBegin \/ RenderSpawn \/ RenderSpawned
SpecSpawn == InitSpawn /\ [][SpawnNext]_vars

\* rayColor on every call of the bounded input sets.
SpecRayColor == InitRayColor /\ [][RayColorNext]_vars
\* The same with the thread that runs rayColor scheduled again and again until
\* the outermost call has returned: WF_vars(RayColorNext), in which ENABLED
\* <<RayColorNext>>_vars is written out as callStack # <<>> (an activation on
\* the stack always has a next step, and the empty stack has none).
RayColorScheduled ==
  []<>(callStack = <<>>) \/ []<><<RayColorNext>>_vars
FairSpecRayColor == SpecRayColor /\ RayColorScheduled

\* -------------------------------------------------------- claims on render
\* The rows work(startRow, numRows) of thread n loops over.
Rows(n) ==
  workerThreads[n].startRow ..
    (workerThreads[n].startRow + workerThreads[n].numRows - 1)
\* Thread n is inside work.
Running(n) == workerThreads[n].pc \notin {"unborn", "finished"}
\* The workers that stored to cell c.
Writers(c) == {written[c][k] : k \in 1..Len(written[c])}

\* C1: for every height H >= 0 and thread count N >= 1 the ranges handed to the
\* N workers are contiguous, pairwise disjoint and cover every row 0..H-1
\* exactly once; workers 0..N-2 get floor(H/N) rows from i*floor(H/N), the last
\* worker gets the remaining rows (when N > H every worker but the last gets
\* none).
C1_RowPartition ==
  renderPc \in {"join", "done"} =>
    LET H == image.height
        N == numThreads
    IN /\ \A n \in 0..(N - 2) :
            /\ workerThreads[n].startRow = n * (H \div N)
            /\ workerThreads[n].numRows = H \div N
            /\ workerThreads[n + 1].startRow =
                 workerThreads[n].startRow + workerThreads[n].numRows
       /\ workerThreads[0].startRow = 0
       /\ workerThreads[N - 1].startRow + workerThreads[N - 1].numRows = H
       /\ workerThreads[N - 1].numRows = H - (N - 1) * (H \div N)
       /\ \A row \in 0..(H - 1) :
            Cardinality({n \in Workers : row \in Rows(n)}) = 1
       /\ \A n \in Workers : Rows(n) \subseteq 0..(H - 1)
       /\ N > H => \A n \in 0..(N - 2) : workerThreads[n].numRows = 0

\* Every thread is spawned, the height is no multiple of the thread count and
\* exceeds it: the last worker has the remainder on top of its share.
C1_Witness ==
  /\ renderPc = "join"
  /\ numThreads >= 2
  /\ image.height > numThreads
  /\ image.height % numThreads # 0
  /\ workerThreads[numThreads - 1].numRows > rowsPerThread

\* C2: in every interleaving each worker writes only cells y*width+x whose row
\* y is in its own range, so no cell is ever written by two different workers.
C2_OwnRowsOnly ==
  \A c \in Cells :
    /\ \A w \in Writers(c) : (c \div image.width) \in Rows(w)
    /\ Cardinality(Writers(c)) <= 1

\* Two workers have stored, each to a cell, and both are still running.
C2_Witness ==
  \E a, b \in Workers :
    /\ a # b
    /\ Running(a)
    /\ Running(b)
    /\ \E c \in Cells : Writers(c) = {a}
    /\ \E c \in Cells : Writers(c) = {b}

\* C3: render reaches its completion point only after every worker has
\* finished its row loop; at that point every cell has been written exactly
\* once, and no worker writes a cell afterwards (the property holds in every
\* state from the completion point on, writeImage's states included).
C3_JoinBarrier ==
  renderPc = "done" =>
    /\ \A n \in Workers : workerThreads[n].pc = "finished"
    /\ \A c \in Cells : Len(written[c]) = 1

\* render of a non-empty image by two threads or more has returned and
\* writeImage has read the buffer to its end.
C3_Witness ==
  /\ renderPc = "done"
  /\ writePc = "closed"
  /\ numThreads >= 2
  /\ Cells # {}
  /\ \E c, d \in Cells : Writers(c) # Writers(d)

\* C4, as the specification states it: the generator a worker reads and
\* advances is private to it; with numThreads >= 2 no two concurrently running
\* workers read or advance the same generator instance.
C4_GeneratorPrivate ==
  numThreads >= 2 =>
    \A a, b \in Workers :
      (a # b /\ Running(a) /\ Running(b)) =>
        ~(a \in generatorUsers /\ b \in generatorUsers)

\* render by one thread, from the generator's state at the call: the pixels
\* work(0, image.height) stores, drawing the stream in order.
RECURSIVE WorkAlone(_, _, _)
WorkAlone(ws, g, pixels) ==
  IF ws.pc = "finished" THEN pixels
  ELSE IF ws.pc = "store"
  THEN WorkAlone(AfterStore(ws), g,
                 [pixels EXCEPT ![PixelIndex(ws.y, ws.x)] = FinalColor(ws.color)])
  ELSE WorkAlone(Settle(AfterDraw(ws, GenOut(g))), GenNext(g), pixels)
SingleThreadPixels ==
  WorkAlone(WorkerStart(0, image.height), 0,
            NewImage(image.width, image.height).pixels)

\* C5, as the specification states it: for the same scene, camera, samples,
\* depth and seeding, render with N > 1 threads produces the image render with
\* one thread produces, under every interleaving of the workers.
C5_ThreadCountDeterminism ==
  renderPc = "done" => image.pixels = SingleThreadPixels

\* A step of a worker thread that is inside work.
WorkerStepped ==
  \E w \in Workers : Running(w) /\ workerThreads'[w] # workerThreads[w]

\* C6: from the start of the workers until render returns no worker action
\* modifies the scene (the object list, a sphere's centre, radius or material,
\* a material's parameters) or the camera; the only program data the workers
\* write are image cells and the generator's state.
C6_SceneReadOnly ==
  [][WorkerStepped =>
       /\ objects' = objects
       /\ camera' = camera
       /\ UNCHANGED <<paramVars, rowsPerThread, i, joined, renderPc, fileVars>>
       /\ image'.width = image.width
       /\ image'.height = image.height
       /\ DOMAIN image'.pixels = DOMAIN image.pixels]_vars

\* Workers have traced rays against a world that holds a sphere, drawn from
\* the generator and stored a pixel.
C6_Witness ==
  /\ objects # <<>>
  /\ generatorUsers # {}
  /\ \E c \in Cells : written[c] # <<>>
  /\ \E w \in Workers : Running(w)


\* ---------------------------------------------------- claims on writeImage
\* The integers writeImage emitted for pixel (x, y): row y is line
\* 3 + (height - y), the rows being written from y = height - 1 down to 0.
Emitted(x, y) ==
  LET row == out[3 + (image.height - y)]
  IN <<row[3 * x + 1], row[3 * x + 2], row[3 * x + 3]>>

\* C10, as the specification states it: for an image with channels in [0,1]
\* writeImage emits P3, "<width> <height>", 255, then one line per row of
\* width triples, every integer in 0..255; a channel of exactly 1.0 comes out
\* as 255 and 0.0 as 0, so the 2x1 image (1,0,0), (0,1,0) gives 255 0 0 0 255 0.
C10_WriteImageQuantises ==
  writePc = "closed" =>
    /\ Len(out) = 3 + image.height
    /\ out[1] = <<"P3">>
    /\ out[2] = <<image.width, image.height>>
    /\ out[3] = <<255>>
    /\ \A r \in 1..image.height :
         /\ Len(out[3 + r]) = 3 * image.width
         /\ \A n \in 1..Len(out[3 + r]) : out[3 + r][n] \in 0..255
    /\ \A y \in 0..(image.height - 1) : \A x \in 0..(image.width - 1) :
         \A ch \in 1..3 :
           LET value == image.pixels[y * image.width + x][ch]
           IN /\ value = Lit(1) => Emitted(x, y)[ch] = 255
              /\ value = Lit(0) => Emitted(x, y)[ch] = 0
    /\ (image.width = 2 /\ image.height = 1
          /\ image.pixels[0] = <<Lit(1), Lit(0), Lit(0)>>
          /\ image.pixels[1] = <<Lit(0), Lit(1), Lit(0)>>)
         => out[4] = <<255, 0, 0, 0, 255, 0>>


\* C15, as the specification states it: for every pixel (x, y) of an image of
\* width >= 1 and height >= 1 and every jitter in [0, 1), the coordinates
\* (s, t) render hands to Camera::getRay both lie in [0, 1], and computing
\* them divides by no zero (neither is infinite or NaN).
C15_CoordinatesInUnitSquare ==
  \A w \in Workers :
    workerThreads[w].pc \in {"lens1", "lens2"} =>
      /\ IsFin(workerThreads[w].u)
      /\ FGe(workerThreads[w].u, Fin(0))
      /\ FGe(Lit(1), workerThreads[w].u)
      /\ IsFin(workerThreads[w].v)
      /\ FGe(workerThreads[w].v, Fin(0))
      /\ FGe(Lit(1), workerThreads[w].v)

\* C17, as the specification states it: every channel of every pixel render
\* stores lies in [0, 0.999], so writeImage on the rendered image emits only
\* integers in 0..255 and never 256.
C17_RenderedPixelsInRange ==
  /\ \A c \in Cells : \A ch \in 1..3 :
       written[c] # <<>> =>
         /\ IsFin(image.pixels[c][ch])
         /\ FGe(image.pixels[c][ch], Fin(0))
         /\ FGe(FLit(999, 1000), image.pixels[c][ch])
  /\ renderPc = "done" =>
       \A r \in 4..Len(out) : \A n \in 1..Len(out[r]) : out[r][n] \in 0..255

\* ------------------------------------------------------ claims on rayColor
\* The activations of rayColor that exist: those on the stack and the one
\* that returned last.
Activations ==
  {callStack[k] : k \in 1..Len(callStack)}
    \cup (IF returned = NoReturn THEN {} ELSE {returned})

\* C11: rayColor called with depth <= 0 returns exactly black (0, 0, 0), for
\* every ray and scene, and does so without querying the scene, without
\* calling any scatter and without drawing a random number.
C11_DepthZeroBlack ==
  \A f \in Activations :
    f.depth <= 0 =>
      /\ f.pc \in {"entry", "return"}
      /\ f.queries = 0
      /\ f.scatters = 0
      /\ ~f.drew
      /\ f.pc = "return" => (f.value = Vec(0, 0, 0) /\ f.cause = "depth")

\* A recursive call that was handed depth 0 has returned to its caller, whose
\* ray had hit a sphere.
C11_Witness ==
  /\ returned # NoReturn
  /\ returned.depth = 0
  /\ callStack # <<>>
  /\ Top.queries = 1
  /\ Top.cause = "child"

\* The activations in which Dielectric::scatter has chosen its ratio.
InDielectric ==
  {f \in Activations :
     f.scatters = 1 /\ f.hitRecord.material.kind = "Dielectric"}

\* C12, as the code has it: Dielectric::scatter uses refraction ratio 1/ir
\* when the hit record's front-face flag is true and ir when the flag is
\* false, for every hit and every refractive index ir.
C12_RatioByFace ==
  \A f \in InDielectric :
    f.refractionRatio =
      IF f.hitRecord.frontFace
      THEN FDiv(Lit(1), f.hitRecord.material.ir)
      ELSE f.hitRecord.material.ir

\* C12, as the specification states it: Dielectric::scatter uses refraction
\* ratio ir when the front-face flag is true and 1/ir when the flag is false.
C12_RatioAsStated ==
  \A f \in InDielectric :
    f.refractionRatio =
      IF f.hitRecord.frontFace
      THEN f.hitRecord.material.ir
      ELSE FDiv(Lit(1), f.hitRecord.material.ir)

\* A ray has entered a glass sphere through its front face and the refracted
\* ray has met the surface from inside.
C12_Witness ==
  \E f, g \in InDielectric :
    /\ f.hitRecord.frontFace
    /\ f.pc = "awaiting"
    /\ ~g.hitRecord.frontFace
    /\ g.pc = "recurse"
    /\ g.hitRecord.material.ir # FDiv(Lit(1), g.hitRecord.material.ir)

\* rayColor is inside a rejection-sampling loop.
Sampling == callStack # <<>> /\ Top.pc = "sample"
\* The depth main handed to the outermost activation.
RootDepth == callStack[1].depth
\* What C16 says of the activations in one state.
NestingBounded ==
  /\ callStack # <<>> =>
       Len(callStack) <= (IF RootDepth >= 0 THEN RootDepth ELSE 0) + 1
  /\ \A k \in 2..Len(callStack) :
       /\ callStack[k].depth = callStack[k - 1].depth - 1
       /\ callStack[k - 1].pc = "awaiting"
       /\ callStack[k].ray = callStack[k - 1].scatteredRay
  /\ \A f \in Activations :
       /\ f.queries <= 1
       /\ f.scatters <= f.queries
       /\ f.pc \in {"recurse", "awaiting"} => f.scatters = 1
       /\ f.pc = "return" =>
            \/ f.cause = "depth" /\ f.depth <= 0 /\ f.value = Vec(0, 0, 0)
            \/ /\ f.cause = "miss" /\ f.queries = 1 /\ f.scatters = 0
               /\ f.value = SkyColor(f.ray)
            \/ f.cause = "absorbed" /\ f.scatters = 1 /\ f.value = Vec(0, 0, 0)
            \/ f.cause = "child" /\ f.scatters = 1 /\ f.depth >= 1

\* C16: for every depth d >= 0 a call rayColor(ray, world, d) nests at most d
\* recursive calls; each level makes at most one World::hit query and at most
\* one scatter and passes depth - 1 to the next; a level returns at the first
\* miss (the sky gradient), the first declined scatter (black) or depth 0
\* (black); and the call returns, provided every rejection-sampling loop
\* eventually accepts a point.
C16_BoundedRecursion ==
  /\ []NestingBounded
  /\ ([]<>(~Sampling)) => <>(callStack = <<>>)

\* A call with depth 2 has nested two recursive calls, and the innermost has
\* run out of depth.
C16_Witness ==
  /\ Len(callStack) = 3
  /\ RootDepth = 2
  /\ Top.depth = 0
  /\ Top.pc = "return"
  /\ callStack[2].queries = 1

====
